---- MODULE Spec2Model ----
(***************************************************************************)
(* A model of three parts of ggrc-core:                                    *)
(*   - the Alembic migration 20191009_9a38b1d92f3e (upgrade / downgrade),  *)
(*   - converters/import_helper.get_column_order,                          *)
(*   - the Assessment hooks of models/hooks/assessment.py.                 *)
(* Each part has its own specification (SpecMigration, SpecColumnOrder,    *)
(* ...); a specification leaves the variables of the other parts at their  *)
(* initial value.                                                          *)
(***************************************************************************)
EXTENDS Integers, Sequences, FiniteSets, TLC

VARIABLES
  \* ---- migration ----
  schema,           \* table name -> [columns, uniques]
  ddl_log,          \* table name -> sequence of the DDL operations applied to it
  upgraded_tables,  \* the tables the loop of upgrade() has visited
  mig_pc,           \* "start" | "upgrading" | "upgraded" | "failed"
  mig_error,        \* the exception the last migration call raised, or "none"
  n_downgrade,      \* number of downgrade() calls made so far
  \* ---- model_put_before_commit hook ----
  put_pc,           \* "idle" | "returned" | "raised"
  put_kwargs,       \* the handler's kwargs: [initial_state, obj], or None
  put_obj,          \* obj as the handler leaves it
  put_events,       \* what the handler did, in order
  put_caught,       \* the error the except clause caught, or NoError
  put_error,        \* the error that left the handler, or NoError
  put_session,      \* db.session: "active" | "rolled_back"
  \* ---- get_column_order ----
  co_pc,            \* "idle" | "call" | "done"
  co_attr_list,     \* the argument
  co_result,        \* the returned list
  \* ---- set_test_plan ----
  tp_pc,            \* "idle" | "call" | "done"
  tp_args,          \* the arguments: [assessment, template, snapshot_rev_content]
  tp_assessment,    \* the assessment after the call
  \* ---- _relate_assignees ----
  rl_pc,            \* "idle" | "call" | "done"
  rl_args,          \* [snapshot_acl, audit_acl, template]
  rl_map,           \* the dict _generate_role_people_map returned
  rl_assignee_ids,  \* what _get_people_ids_by_role returned for "assignees"
  rl_verifier_ids,  \* what _get_people_ids_by_role returned for "verifiers"
  \* ---- batch inserts ----
  flask_g,          \* flask.g: attribute name -> list of stubs
  n_marks,          \* number of stubs made so far; a stub's mark is its identity
  cad_table,        \* rows inserted into custom_attribute_definitions
  acp_table,        \* rows inserted into access_control_people
  db_executed,      \* the insert statements db.session.execute has run, in order
  cache_new,        \* Cache.new: the rows put into the cache
  last_call,        \* the function called last
  \* ---- collection_posted hook ----
  post_pc,          \* "idle" | "call" | "returned" | "raised"
  post_args,        \* the handler's arguments: [objects, sources], or None
  post_objects,     \* the assessments as the handler leaves them
  post_calls,       \* the arguments of each _handle_assessment call, in order
  post_lookups,     \* the referenced_objects.get calls made, in order
  post_trace,       \* what the handler did, in order
  post_error,       \* the error that left the handler, or NoError
  post_env          \* flask.g, tables, statements and cache of the request

migVars == <<schema, ddl_log, upgraded_tables, mig_pc, mig_error, n_downgrade>>

putVars == <<put_pc, put_kwargs, put_obj, put_events, put_caught, put_error, put_session>>

coVars == <<co_pc, co_attr_list, co_result>>

tpVars == <<tp_pc, tp_args, tp_assessment>>

rlVars == <<rl_pc, rl_args, rl_map, rl_assignee_ids, rl_verifier_ids>>

envVars == <<flask_g, n_marks, cad_table, acp_table, db_executed, cache_new>>
batchVars == <<envVars, last_call>>

postVars ==
  <<post_pc, post_args, post_objects, post_calls, post_lookups, post_trace,
    post_error, post_env>>

vars == <<migVars, putVars, coVars, tpVars, rlVars, batchVars, postVars>>

\* Python's None, where a string is expected.
None == "None"

\* The id of no row; the object None is the row-like record with that id.
NoneId == 0
NoneObj == [id |-> NoneId]

(***************************************************************************)
(* Helpers on sequences.                                                   *)
(***************************************************************************)
Range(s) == {s[i] : i \in 1..Len(s)}

(***************************************************************************)
(* The migration: extend_tables_for_scope_objects.                         *)
(***************************************************************************)

\* How many times downgrade() is called in one behaviour.
MaxDowngrades == 2

scope_tables_names ==
  { "access_groups", "account_balances", "data_assets", "facilities",
    "markets", "org_groups", "vendors", "products", "projects", "systems",
    "key_reports", "product_groups", "metrics", "technology_environments" }

\* Tables of the database the migration does not name.
OtherTables == {"assessments", "audits"}

Tables == scope_tables_names \cup OtherTables

\* sa.Column(name, type, nullable=...); length is 0 for a type without one.
Column(name, type, length, nullable) ==
  [name |-> name, type |-> type, length |-> length, nullable |-> nullable]

\* The schema at down_revision: the tables have their own columns and none
\* of the columns or constraints this revision adds.
BaseColumns == {Column("id", "Integer", 0, FALSE), Column("title", "String", 250, FALSE)}

InitialSchema == [t \in Tables |-> [columns |-> BaseColumns, uniques |-> {}]]

\* One DDL operation of alembic.op.
AddColumn(col) == [op |-> "add_column", column |-> col]
CreateUniqueConstraint(cname, cols) ==
  [op |-> "create_unique_constraint", name |-> cname, columns |-> cols]

ColumnNames(tbl) == {c.name : c \in tbl.columns}

\* Whether the database accepts operation o on table definition tbl: a column
\* is added once, a constraint needs its columns and a name free in the table.
OpAccepted(tbl, o) ==
  IF o.op = "add_column"
    THEN o.column.name \notin ColumnNames(tbl)
    ELSE /\ Range(o.columns) \subseteq ColumnNames(tbl)
         /\ o.name \notin {u.name : u \in tbl.uniques}

ApplyOp(tbl, o) ==
  IF o.op = "add_column"
    THEN [tbl EXCEPT !.columns = @ \cup {o.column}]
    ELSE [tbl EXCEPT !.uniques = @ \cup {[name |-> o.name, columns |-> o.columns]}]

\* The body of upgrade()'s loop without the constraint on external_slug.
UpgradeOpsNoSlugConstraint(name) ==
  << AddColumn(Column("external_id", "Integer", 0, TRUE)),
     AddColumn(Column("external_slug", "String", 255, TRUE)),
     AddColumn(Column("created_by_id", "Integer", 0, TRUE)),
     CreateUniqueConstraint("uq_external_id", <<"external_id">>) >>

\* The body of upgrade()'s loop: the five operations on table `name`, in order.
UpgradeOps(name) ==
  << AddColumn(Column("external_id", "Integer", 0, TRUE)),
     AddColumn(Column("external_slug", "String", 255, TRUE)),
     AddColumn(Column("created_by_id", "Integer", 0, TRUE)),
     CreateUniqueConstraint("uq_external_id", <<"external_id">>),
     CreateUniqueConstraint("uq_external_slug", <<"external_slug">>) >>

\* Runs ops[i..] on tbl: the table after them, the operations that were
\* applied, and whether one was refused (the rest is then not run: DDL is
\* not transactional, what was applied stays).
RECURSIVE RunOps(_, _, _, _)
RunOps(tbl, ops, i, done) ==
  IF i > Len(ops) THEN [table |-> tbl, log |-> done, ok |-> TRUE]
  ELSE IF ~OpAccepted(tbl, ops[i]) THEN [table |-> tbl, log |-> done, ok |-> FALSE]
  ELSE RunOps(ApplyOp(tbl, ops[i]), ops, i + 1, Append(done, ops[i]))

MigInit ==
  /\ schema = InitialSchema
  /\ ddl_log = [t \in Tables |-> <<>>]
  /\ upgraded_tables = {}
  /\ mig_pc = "start"
  /\ mig_error = "none"
  /\ n_downgrade = 0

\* One iteration of `for name in scope_tables_names`: a set is iterated in an
\* order the program does not choose.
upgrade(name) ==
  /\ mig_pc \in {"start", "upgrading"}
  /\ name \in scope_tables_names \ upgraded_tables
  /\ LET r == RunOps(schema[name], UpgradeOps(name), 1, <<>>) IN
       /\ schema' = [schema EXCEPT ![name] = r.table]
       /\ ddl_log' = [ddl_log EXCEPT ![name] = @ \o r.log]
       /\ upgraded_tables' = upgraded_tables \cup {name}
       /\ mig_pc' = IF ~r.ok THEN "failed"
                    ELSE IF upgraded_tables' = scope_tables_names THEN "upgraded"
                    ELSE "upgrading"
       /\ mig_error' = IF r.ok THEN "none" ELSE "OperationalError"
  /\ UNCHANGED n_downgrade

\* A downgrade that undoes the upgrade instead of refusing.
downgrade_dropping ==
  /\ mig_pc \in {"start", "upgraded"}
  /\ n_downgrade < MaxDowngrades
  /\ n_downgrade' = n_downgrade + 1
  /\ mig_error' = "none"
  /\ schema' = InitialSchema
  /\ UNCHANGED <<ddl_log, upgraded_tables, mig_pc>>

\* downgrade(): raise NotImplementedError("Downgrade is not supported").
downgrade ==
  /\ mig_pc \in {"start", "upgraded"}
  /\ n_downgrade < MaxDowngrades
  /\ n_downgrade' = n_downgrade + 1
  /\ mig_error' = "NotImplementedError"
  /\ UNCHANGED <<schema, ddl_log, upgraded_tables, mig_pc>>

\* Once upgrade() has completed, every scope table has exactly the three new
\* nullable columns and a unique constraint on external_id and external_slug.
UpgradeComplete ==
  mig_pc = "upgraded" =>
    \A t \in scope_tables_names :
      /\ { Column("external_id", "Integer", 0, TRUE),
           Column("external_slug", "String", 255, TRUE),
           Column("created_by_id", "Integer", 0, TRUE) } \subseteq schema[t].columns
      /\ \E u \in schema[t].uniques : u.columns = <<"external_id">>
      /\ \E u \in schema[t].uniques : u.columns = <<"external_slug">>
      /\ schema[t].columns \ BaseColumns =
           { Column("external_id", "Integer", 0, TRUE),
             Column("external_slug", "String", 255, TRUE),
             Column("created_by_id", "Integer", 0, TRUE) }

\* In the log of every table, a constraint comes after the add_column of
\* each column it names.
ColumnsBeforeConstraints ==
  \A t \in Tables : \A j \in 1..Len(ddl_log[t]) :
    ddl_log[t][j].op = "create_unique_constraint" =>
      \A c \in Range(ddl_log[t][j].columns) :
        \E i \in 1..(j - 1) :
          /\ ddl_log[t][i].op = "add_column"
          /\ ddl_log[t][i].column.name = c

\* The tables the migration does not name are as they were.
OtherTablesUntouched ==
  \A t \in Tables \ scope_tables_names :
    schema[t] = InitialSchema[t] /\ ddl_log[t] = <<>>

\* C4: once upgrade() has completed, every table of scope_tables_names has the
\* nullable columns external_id (integer), external_slug (string(255)) and
\* created_by_id (integer) and a unique constraint on external_id and on
\* external_slug; in every table a constraint is created after the columns
\* it names were added; no table outside scope_tables_names is ever changed.
C4_UpgradeExtendsScopeTables ==
  UpgradeComplete /\ ColumnsBeforeConstraints /\ OtherTablesUntouched

\* C4 witness: upgrade() has run to completion and the last table holds both
\* constraints, created after its three columns.
C4_Witness ==
  /\ mig_pc = "upgraded"
  /\ upgraded_tables = scope_tables_names
  /\ \A t \in scope_tables_names : Len(ddl_log[t]) = 5
  /\ \A t \in scope_tables_names : Cardinality(schema[t].uniques) = 2

\* C5: every downgrade() call raises NotImplementedError and changes nothing
\* of the schema (nor of the migration's progress), whether it is called
\* before or after upgrade().
C5_DowngradeRaisesAndKeepsSchema ==
  [][ n_downgrade' # n_downgrade =>
        /\ mig_error' = "NotImplementedError"
        /\ schema' = schema
        /\ ddl_log' = ddl_log
        /\ upgraded_tables' = upgraded_tables
        /\ mig_pc' = mig_pc ]_vars

\* C5 witness: downgrade() was called on the upgraded schema and raised, and
\* the upgraded schema is still there.
C5_Witness ==
  /\ n_downgrade > 0
  /\ mig_pc = "upgraded"
  /\ mig_error = "NotImplementedError"
  /\ \A t \in scope_tables_names : Cardinality(schema[t].uniques) = 2

(***************************************************************************)
(* models/hooks/assessment.py: the model_put_before_commit hook.           *)
(***************************************************************************)

\* Statusable's states of an Assessment.
START_STATE == "Not Started"
PROGRESS_STATE == "In Progress"
DONE_STATE == "In Review"
VERIFIED_STATE == "Verified"
FINAL_STATE == "Completed"
DEPRECATED == "Deprecated"
REWORK_NEEDED == "Rework Needed"

VALID_STATES ==
  {START_STATE, PROGRESS_STATE, DONE_STATE, VERIFIED_STATE, FINAL_STATE,
   DEPRECATED, REWORK_NEEDED}
NOT_DONE_STATES == {START_STATE, PROGRESS_STATE, REWORK_NEEDED}
DONE_STATES == {DONE_STATE, VERIFIED_STATE, FINAL_STATE}

NoError == [type |-> "none", message |-> ""]
StatusValidationError(msg) == [type |-> "StatusValidationError", message |-> msg]

\* An attribute is the sequence of its value, empty when the object does not
\* have the attribute (hasattr is false).
Absent == <<>>
Attr(v) == <<v>>

\* The assessments a PUT can hand to the hook.
PutObjects ==
  [ status : VALID_STATES,
    verified : BOOLEAN,
    sox_302_enabled : {Attr(TRUE), Attr(FALSE), Absent},
    verifiers : {Attr(<<>>), Attr(<<2>>), Absent},
    preconditions_failed : {Attr(TRUE), Attr(FALSE), Absent} ]

\* getattr(obj, name, default), attr being the attribute of that name.
getattr(attr, default) == IF attr = Absent THEN default ELSE attr[1]

\* hasattr(obj, "preconditions_failed") and obj.preconditions_failed
PreconditionsFailed(obj) ==
  obj.preconditions_failed # Absent /\ obj.preconditions_failed[1]

\* _validate_assessment_done_state that moves a completed assessment with
\* verifiers to review whatever its sox_302_enabled.
_validate_assessment_done_state_ignoring_sox(old_value, obj) ==
  IF /\ old_value \in NOT_DONE_STATES
     /\ obj.status \in DONE_STATES
     /\ PreconditionsFailed(obj)
  THEN [ error |-> StatusValidationError("CA-introduced completion preconditions are not satisfied."),
         obj |-> obj ]
  ELSE [ error |-> NoError,
         obj |-> IF /\ obj.status = FINAL_STATE
                    /\ ~obj.verified
                    /\ getattr(obj.verifiers, <<>>) # <<>>
                 THEN [obj EXCEPT !.status = DONE_STATE]
                 ELSE obj ]

\* _validate_assessment_done_state(old_value, obj): the error it raises (the
\* object is then as it was) or the object as it leaves it.
_validate_assessment_done_state(old_value, obj) ==
  IF /\ old_value \in NOT_DONE_STATES
     /\ obj.status \in DONE_STATES
     /\ PreconditionsFailed(obj)
  THEN [ error |-> StatusValidationError("CA-introduced completion preconditions are not satisfied."),
         obj |-> obj ]
  ELSE [ error |-> NoError,
         obj |-> IF /\ obj.status = FINAL_STATE
                    /\ ~obj.verified
                    /\ ~getattr(obj.sox_302_enabled, FALSE)
                    /\ getattr(obj.verifiers, <<>>) # <<>>
                 THEN [obj EXCEPT !.status = DONE_STATE]
                 ELSE obj ]

\* handle_assessment_done_state with an except clause that re-raises without
\* rolling back.
DoneStateOutcomeNoRollback(kwargs) ==
  LET r == _validate_assessment_done_state(kwargs.initial_state.status, kwargs.obj) IN
  IF r.error.type = "StatusValidationError"
  THEN [ obj |-> r.obj, caught |-> r.error, error |-> r.error,
         events |-> <<"validate raised", "raise error">>,
         session |-> "active" ]
  ELSE [ obj |-> r.obj, caught |-> NoError, error |-> NoError,
         events |-> <<"validate returned">>, session |-> "active" ]

\* handle_assessment_done_state(sender, **kwargs): try the validation; on
\* StatusValidationError roll the session back, then raise the caught error.
DoneStateOutcome(kwargs) ==
  LET r == _validate_assessment_done_state(kwargs.initial_state.status, kwargs.obj) IN
  IF r.error.type = "StatusValidationError"
  THEN [ obj |-> r.obj, caught |-> r.error, error |-> r.error,
         events |-> <<"validate raised", "db.session.rollback", "raise error">>,
         session |-> "rolled_back" ]
  ELSE [ obj |-> r.obj, caught |-> NoError, error |-> NoError,
         events |-> <<"validate returned">>, session |-> "active" ]

PutInit ==
  /\ put_pc = "idle"
  /\ put_kwargs = None
  /\ put_obj = None
  /\ put_events = <<>>
  /\ put_caught = NoError
  /\ put_error = NoError
  /\ put_session = "active"

\* The signal model_put_before_commit fires for an updated assessment.
handle_assessment_done_state(kwargs) ==
  /\ put_pc = "idle"
  /\ LET out == DoneStateOutcome(kwargs) IN
       /\ put_kwargs' = kwargs
       /\ put_obj' = out.obj
       /\ put_events' = out.events
       /\ put_caught' = out.caught
       /\ put_error' = out.error
       /\ put_session' = out.session
       /\ put_pc' = IF out.error = NoError THEN "returned" ELSE "raised"

\* The request is over; the next PUT runs in a session of its own.
PutRequestEnd ==
  /\ put_pc \in {"returned", "raised"}
  /\ put_pc' = "idle"
  /\ put_kwargs' = None
  /\ put_obj' = None
  /\ put_events' = <<>>
  /\ put_caught' = NoError
  /\ put_error' = NoError
  /\ put_session' = "active"

\* Position of an event in the handler's log, 0 when it did not happen.
EventIndex(events, e) ==
  IF e \in Range(events) THEN CHOOSE i \in 1..Len(events) : events[i] = e ELSE 0

\* The case C1 is about: from a not-done to a done state with failed
\* preconditions.
C1_Case ==
  /\ put_pc # "idle"
  /\ put_kwargs.initial_state.status \in NOT_DONE_STATES
  /\ put_kwargs.obj.status \in DONE_STATES
  /\ put_kwargs.obj.preconditions_failed = Attr(TRUE)

\* C1: when the initial status is in NOT_DONE_STATES, the new status is in
\* DONE_STATES and preconditions_failed is truthy, the handler raises
\* StatusValidationError, rolls the session back before the error leaves it,
\* and the error that leaves is the one it caught; when no error leaves the
\* handler, no rollback was performed.
C1_DoneStateErrorRollsBackAndReraises ==
  put_pc # "idle" =>
    /\ C1_Case =>
         /\ put_pc = "raised"
         /\ put_error.type = "StatusValidationError"
         /\ put_error = put_caught
         /\ put_session = "rolled_back"
         /\ EventIndex(put_events, "db.session.rollback") > 0
         /\ EventIndex(put_events, "db.session.rollback")
              < EventIndex(put_events, "raise error")
    /\ put_error = NoError =>
         /\ put_pc = "returned"
         /\ put_session = "active"
         /\ EventIndex(put_events, "db.session.rollback") = 0

\* C1 witness: a PUT from "In Progress" to "Completed" with failed
\* preconditions was refused and rolled back.
C1_Witness ==
  /\ C1_Case
  /\ put_kwargs.initial_state.status = PROGRESS_STATE
  /\ put_kwargs.obj.status = FINAL_STATE
  /\ put_pc = "raised"
  /\ put_session = "rolled_back"

\* The assessment has verifiers, is not verified and sox_302_enabled is not
\* set on it.
C11_Case(obj) ==
  /\ obj.verifiers \notin {Absent, Attr(<<>>)}
  /\ ~obj.verified
  /\ obj.sox_302_enabled # Attr(TRUE)

\* C11: when the validation returns, an assessment with verifiers, not
\* verified and without sox_302_enabled is not in FINAL_STATE: if the update
\* set FINAL_STATE the status is now DONE_STATE; in every other case the
\* status is the one the update set; nothing else of the object changes.
C11_CompletedWithVerifiersGoesToReview ==
  put_pc = "returned" =>
    LET before == put_kwargs.obj
        after == put_obj
    IN /\ C11_Case(before) =>
            /\ after.status # FINAL_STATE
            /\ before.status = FINAL_STATE => after.status = DONE_STATE
       /\ ~(C11_Case(before) /\ before.status = FINAL_STATE) =>
            after.status = before.status
       /\ after = [before EXCEPT !.status = after.status]

\* C11 witness: a PUT of an assessment in review to "Completed", with a
\* verifier, not verified, no sox_302_enabled attribute: it is back in review.
C11_Witness ==
  /\ put_pc = "returned"
  /\ put_kwargs.initial_state.status = DONE_STATE
  /\ put_kwargs.obj.status = FINAL_STATE
  /\ put_kwargs.obj.verifiers = Attr(<<2>>)
  /\ ~put_kwargs.obj.verified
  /\ put_kwargs.obj.sox_302_enabled = Absent
  /\ put_obj.status = DONE_STATE

(***************************************************************************)
(* converters/import_helper.py: get_column_order.                          *)
(* A string is the sequence of its characters.                             *)
(***************************************************************************)

\* Longest attr_list given to get_column_order.
MaxAttrs == 3

UpperCaseLetters ==
  << "A", "B", "C", "D", "E", "F", "G", "H", "I", "J", "K", "L", "M",
     "N", "O", "P", "Q", "R", "S", "T", "U", "V", "W", "X", "Y", "Z" >>
LowerCaseLetters ==
  << "a", "b", "c", "d", "e", "f", "g", "h", "i", "j", "k", "l", "m",
     "n", "o", "p", "q", "r", "s", "t", "u", "v", "w", "x", "y", "z" >>

IndexIn(seq, x) == CHOOSE i \in 1..Len(seq) : seq[i] = x

\* ord(c) for the characters used: ":" is 58, "A" 65, "a" 97.
Ord(c) ==
  IF c = ":" THEN 58
  ELSE IF c \in Range(UpperCaseLetters) THEN 64 + IndexIn(UpperCaseLetters, c)
  ELSE 96 + IndexIn(LowerCaseLetters, c)

\* str.lower()
LowerChar(c) ==
  IF c \in Range(UpperCaseLetters) THEN LowerCaseLetters[IndexIn(UpperCaseLetters, c)] ELSE c
lower(str) == [i \in 1..Len(str) |-> LowerChar(str[i])]

\* str.startswith(prefix)
startswith(str, prefix) ==
  /\ Len(str) >= Len(prefix)
  /\ SubSeq(str, 1, Len(prefix)) = prefix

\* a < b for strings: by the first differing character, a proper prefix first.
RECURSIVE StrLess(_, _)
StrLess(a, b) ==
  IF b = <<>> THEN FALSE
  ELSE IF a = <<>> THEN TRUE
  ELSE IF Head(a) # Head(b) THEN Ord(Head(a)) < Ord(Head(b))
  ELSE StrLess(Tail(a), Tail(b))

\* Stable sort of [key, value] records by key: an element goes after those
\* whose key is not greater than its own.
RECURSIVE SortedByKey(_)
SortedByKey(pairs) ==
  IF pairs = <<>> THEN <<>>
  ELSE LET n == Len(pairs)
           front == SortedByKey(SubSeq(pairs, 1, n - 1))
           x == pairs[n]
           k == Cardinality({i \in 1..Len(front) : ~StrLess(x.key, front[i].key)})
       IN SubSeq(front, 1, k) \o <<x>> \o SubSeq(front, k + 1, Len(front))

Values(pairs) == [i \in 1..Len(pairs) |-> pairs[i].value]

\* seq.sort(): by the strings themselves.
sort(seq) ==
  Values(SortedByKey([i \in 1..Len(seq) |-> [key |-> seq[i], value |-> seq[i]]]))

\* seq.sort(key=lambda x: x.lower())
sort_key_lower(seq) ==
  Values(SortedByKey([i \in 1..Len(seq) |-> [key |-> lower(seq[i]), value |-> seq[i]]]))

\* ggrc.converters.COLUMN_ORDER: the default attributes, in display order.
COLUMN_ORDER ==
  << <<"s", "l", "u", "g">>,
     <<"t", "i", "t", "l", "e">>,
     <<"n", "o", "t", "e", "s">> >>

map_prefix == <<"m", "a", "p", ":">>

\* The attribute names an attr_list is drawn from: default attributes, custom
\* attributes in both cases (one called "map", one "Title") and mappings in
\* both cases.
AttrNames ==
  { <<"t", "i", "t", "l", "e">>,
    <<"s", "l", "u", "g">>,
    <<"T", "i", "t", "l", "e">>,
    <<"b">>,
    <<"A">>,
    <<"m", "a", "p">>,
    <<"m", "a", "p", ":", "b">>,
    <<"M", "A", "P", ":", "A">> }

AttrLists == UNION {[1..n -> AttrNames] : n \in 0..MaxAttrs}

IsMapping(v) == startswith(lower(v), map_prefix)

\* get_column_order with the two sorts comparing the names as they are.
get_column_order_case_sensitive(attr_list) ==
  LET attr_set == Range(attr_list)
      InAttrSet(v) == v \in attr_set
      default_attrs == SelectSeq(COLUMN_ORDER, InAttrSet)
      default_set == Range(default_attrs)
      NotDefault(v) == v \notin default_set
      other_attrs == SelectSeq(attr_list, NotDefault)
      IsCustom(v) == ~IsMapping(v)
      custom_attrs == SelectSeq(other_attrs, IsCustom)
      mapping_attrs == SelectSeq(other_attrs, IsMapping)
  IN default_attrs \o sort(custom_attrs) \o sort(mapping_attrs)

\* get_column_order(attr_list)
get_column_order(attr_list) ==
  LET attr_set == Range(attr_list)
      InAttrSet(v) == v \in attr_set
      default_attrs == SelectSeq(COLUMN_ORDER, InAttrSet)
      default_set == Range(default_attrs)
      NotDefault(v) == v \notin default_set
      other_attrs == SelectSeq(attr_list, NotDefault)
      IsCustom(v) == ~IsMapping(v)
      custom_attrs == SelectSeq(other_attrs, IsCustom)
      mapping_attrs == SelectSeq(other_attrs, IsMapping)
  IN default_attrs \o sort_key_lower(custom_attrs) \o sort_key_lower(mapping_attrs)

CoIdle ==
  /\ co_pc = "idle"
  /\ co_attr_list = <<>>
  /\ co_result = <<>>

CoInit ==
  /\ co_pc = "call"
  /\ co_attr_list \in AttrLists
  /\ co_result = <<>>

CallGetColumnOrder ==
  /\ co_pc = "call"
  /\ co_result' = get_column_order(co_attr_list)
  /\ co_pc' = "done"
  /\ UNCHANGED co_attr_list

\* The group of an attribute: 1 default, 2 custom, 3 mapping.
AttrGroup(v) ==
  IF v \in Range(COLUMN_ORDER) THEN 1 ELSE IF IsMapping(v) THEN 3 ELSE 2

\* C7: the result lists the default attributes first, in COLUMN_ORDER's
\* order, then the custom attributes in alphabetical order ignoring case,
\* then the mapping attributes ("map:", any case) in alphabetical order
\* ignoring case; it holds every attribute of attr_list and nothing else.
C7_ColumnOrderThreeGroups ==
  co_pc = "done" =>
    /\ Range(co_result) = Range(co_attr_list)
    /\ \A p, q \in 1..Len(co_result) :
         p < q =>
           LET a == co_result[p]
               b == co_result[q]
           IN /\ AttrGroup(a) <= AttrGroup(b)
              /\ (AttrGroup(a) = 1 /\ AttrGroup(b) = 1) =>
                   IndexIn(COLUMN_ORDER, a) < IndexIn(COLUMN_ORDER, b)
              /\ (AttrGroup(a) = AttrGroup(b) /\ AttrGroup(a) > 1) =>
                   ~StrLess(lower(b), lower(a))

\* C7 witness: a list given as mapping, custom (upper case after lower
\* case), default comes back as default, custom, mapping with "A" before "b".
C7_Witness ==
  /\ co_pc = "done"
  /\ co_attr_list = << <<"m", "a", "p", ":", "b">>, <<"b">>, <<"A">> >>
  /\ co_result = << <<"A">>, <<"b">>, <<"m", "a", "p", ":", "b">> >>

(***************************************************************************)
(* models/hooks/assessment.py: set_test_plan.                              *)
(***************************************************************************)

\* bool(s) of a string or None.
Truthy(s) == s # None /\ s # ""

\* dict.get(key, default) on a dict whose entry is the sequence of its value.
DictGet(entry, default) == IF entry = Absent THEN default ELSE entry[1]

\* set_test_plan that appends the snapshot's plan whatever the template says.
set_test_plan_always_appending(assessment, template, snapshot_rev_content) ==
  LET a1 == IF template # NoneObj
            THEN [assessment EXCEPT
                    !.test_plan_procedure = template.test_plan_procedure,
                    !.test_plan = template.procedure_description]
            ELSE assessment
      snapshot_plan == DictGet(snapshot_rev_content.test_plan, "")
  IN IF Truthy(a1.test_plan) /\ Truthy(snapshot_plan)
       THEN [a1 EXCEPT !.test_plan = (@ \o "<br>") \o snapshot_plan]
     ELSE IF Truthy(snapshot_plan)
       THEN [a1 EXCEPT !.test_plan = snapshot_plan]
     ELSE a1

\* set_test_plan(assessment, template, snapshot_rev_content): the assessment
\* after the call.
set_test_plan(assessment, template, snapshot_rev_content) ==
  LET a1 == IF template # NoneObj
            THEN [assessment EXCEPT
                    !.test_plan_procedure = template.test_plan_procedure,
                    !.test_plan = template.procedure_description]
            ELSE assessment
  IN IF template = NoneObj \/ template.test_plan_procedure
     THEN LET snapshot_plan == DictGet(snapshot_rev_content.test_plan, "") IN
          IF Truthy(a1.test_plan) /\ Truthy(snapshot_plan)
            THEN [a1 EXCEPT !.test_plan = (@ \o "<br>") \o snapshot_plan]
          ELSE IF Truthy(snapshot_plan)
            THEN [a1 EXCEPT !.test_plan = snapshot_plan]
          ELSE a1
     ELSE a1

\* The arguments set_test_plan is called with.
TestPlanAssessments ==
  [test_plan : {None, "", "assessment plan"}, test_plan_procedure : BOOLEAN]
TestPlanTemplates ==
  {NoneObj} \cup
  [id : {1}, test_plan_procedure : BOOLEAN,
   procedure_description : {None, "", "procedure"}]
TestPlanContents ==
  [test_plan : {Absent, Attr(None), Attr(""), Attr("snapshot plan")}]

TpIdle ==
  /\ tp_pc = "idle"
  /\ tp_args = None
  /\ tp_assessment = None

TpInit ==
  /\ tp_pc = "call"
  /\ tp_args \in [assessment : TestPlanAssessments,
                   template : TestPlanTemplates,
                   snapshot_rev_content : TestPlanContents]
  /\ tp_assessment = tp_args.assessment

CallSetTestPlan ==
  /\ tp_pc = "call"
  /\ tp_assessment' =
       set_test_plan(tp_args.assessment, tp_args.template, tp_args.snapshot_rev_content)
  /\ tp_pc' = "done"
  /\ UNCHANGED tp_args

\* C10: with a template whose test_plan_procedure is false the test plan is
\* the template's procedure_description; with one whose test_plan_procedure
\* is true it is procedure_description, "<br>" and the snapshot's plan when
\* both are non-empty and the non-empty one otherwise; with no template
\* test_plan_procedure stays and a non-empty snapshot plan is appended (after
\* "<br>") to a non-empty test plan or becomes the test plan, an empty one
\* changes nothing.
C10_TestPlanFromTemplateAndSnapshot ==
  tp_pc = "done" =>
    LET before == tp_args.assessment
        after == tp_assessment
        template == tp_args.template
        snapshot_plan == DictGet(tp_args.snapshot_rev_content.test_plan, "")
    IN /\ (template # NoneObj /\ ~template.test_plan_procedure) =>
            after.test_plan = template.procedure_description
       /\ (template # NoneObj /\ template.test_plan_procedure) =>
            LET description == template.procedure_description IN
            /\ (Truthy(description) /\ Truthy(snapshot_plan)) =>
                 after.test_plan = description \o "<br>" \o snapshot_plan
            /\ (Truthy(description) /\ ~Truthy(snapshot_plan)) =>
                 after.test_plan = description
            /\ (~Truthy(description) /\ Truthy(snapshot_plan)) =>
                 after.test_plan = snapshot_plan
            /\ (~Truthy(description) /\ ~Truthy(snapshot_plan)) =>
                 ~Truthy(after.test_plan)
       /\ template = NoneObj =>
            /\ after.test_plan_procedure = before.test_plan_procedure
            /\ (Truthy(snapshot_plan) /\ Truthy(before.test_plan)) =>
                 after.test_plan = before.test_plan \o "<br>" \o snapshot_plan
            /\ (Truthy(snapshot_plan) /\ ~Truthy(before.test_plan)) =>
                 after.test_plan = snapshot_plan
            /\ ~Truthy(snapshot_plan) => after.test_plan = before.test_plan

\* C10 witness: a template with test_plan_procedure false and a snapshot
\* with a plan: the assessment's plan is the template's description alone.
C10_Witness ==
  /\ tp_pc = "done"
  /\ tp_args.template # NoneObj
  /\ ~tp_args.template.test_plan_procedure
  /\ tp_args.template.procedure_description = "procedure"
  /\ tp_args.snapshot_rev_content.test_plan = Attr("snapshot plan")
  /\ tp_args.assessment.test_plan = "assessment plan"
  /\ tp_assessment.test_plan = "procedure"

(***************************************************************************)
(* models/hooks/assessment.py: _generate_role_people_map,                  *)
(* _get_people_ids_by_role, _relate_assignees.                             *)
(* A dict is a function whose DOMAIN is the set of its keys.  A value that *)
(* may be None, a list or a str carries its type.                          *)
(***************************************************************************)

\* Longest access_control_list of a snapshot's revision, and of an audit.
MaxSnapshotAcl == 2
MaxAuditAcl == 2

PyNone == [type |-> "NoneType"]
PyList(items) == [type |-> "list", items |-> items]
PyStr(value) == [type |-> "str", value |-> value]

\* bool(v)
PyTruthy(v) ==
  CASE v.type = "NoneType" -> FALSE
    [] v.type = "list" -> v.items # <<>>
    [] v.type = "str" -> v.value # ""

EmptyDict == [k \in {} |-> <<>>]

\* d.get(k, default) for a dict of lists: the value as a Python value.
GetList(d, k, default) == IF k \in DOMAIN d THEN PyList(d[k]) ELSE default

\* d.get(k) for a dict of Python values.
Get(d, k) == IF k \in DOMAIN d THEN d[k] ELSE PyNone

\* collections.defaultdict(list): d[k] makes the entry when it is missing.
Touch(d, k) == IF k \in DOMAIN d THEN d ELSE d @@ (k :> <<>>)
\* d[k].append(x)
DictAppend(d, k, x) == [Touch(d, k) EXCEPT ![k] = Append(@, x)]
\* d[k].extend(xs)
DictExtend(d, k, xs) == [Touch(d, k) EXCEPT ![k] = @ \o xs]

\* access_control.role.get_custom_roles_for(snapshot.child_type): role id ->
\* role name.  Roles 13 and 14 are roles of the snapshotted type that carry
\* the names the hook uses for the audit's people.
acr_dict ==
  (11 :> "Admin") @@ (12 :> "Principal Assignees") @@
  (13 :> "Audit Lead") @@ (14 :> "Auditors")
\* A role id a revision still names after the role was deleted.
DeletedRoleId == 19

\* access_control.role.get_custom_roles_for("Audit")
audit_acr == (21 :> "Audit Captains") @@ (22 :> "Auditors")

\* next(id_ for id_, role_name in audit_acr.iteritems() if role_name == name)
RoleIdByName(acr, name) == CHOOSE id_ \in DOMAIN acr : acr[id_] = name

\* The entries of snapshot_rev_content["access_control_list"].
SnapshotAclEntries ==
  { [ac_role_id |-> 12, person_id |-> 3],
    [ac_role_id |-> 13, person_id |-> 4],
    [ac_role_id |-> 14, person_id |-> 3],
    [ac_role_id |-> DeletedRoleId, person_id |-> 4] }

\* The (person, acl) pairs of audit.access_control_list.
AuditAclEntries ==
  { [person_id |-> 1, ac_role_id |-> 21],
    [person_id |-> 2, ac_role_id |-> 21],
    [person_id |-> 2, ac_role_id |-> 22] }

SeqsUpTo(S, n) == UNION {[1..k -> S] : k \in 0..n}

\* The loop over snapshot_rev_content["access_control_list"], from entry i.
RECURSIVE SnapshotRoles(_, _, _)
SnapshotRoles(acl_list, i, map) ==
  IF i > Len(acl_list) THEN map
  ELSE LET acl == acl_list[i] IN
       IF acl.ac_role_id \notin DOMAIN acr_dict
         THEN SnapshotRoles(acl_list, i + 1, map)
         ELSE SnapshotRoles(acl_list, i + 1,
                DictAppend(map, acr_dict[acl.ac_role_id], acl.person_id))

\* [person.id for person, acl in audit.access_control_list
\*  if acl.ac_role_id == role_id]
RECURSIVE AuditPeople(_, _)
AuditPeople(audit_acl, role_id) ==
  IF audit_acl = <<>> THEN <<>>
  ELSE (IF Head(audit_acl).ac_role_id = role_id
          THEN <<Head(audit_acl).person_id>> ELSE <<>>)
       \o AuditPeople(Tail(audit_acl), role_id)

\* _generate_role_people_map(audit, snapshot, snapshot_rev_content)
_generate_role_people_map(audit_acl, snapshot_acl) ==
  LET auditor_role_id == RoleIdByName(audit_acr, "Auditors")
      captain_role_id == RoleIdByName(audit_acr, "Audit Captains")
      m1 == SnapshotRoles(snapshot_acl, 1, EmptyDict)
      m2 == DictExtend(m1, "Audit Lead", AuditPeople(audit_acl, captain_role_id))
      m3 == DictExtend(m2, "Auditors", AuditPeople(audit_acl, auditor_role_id))
  IN IF m3["Auditors"] = <<>>
       THEN DictExtend(m3, "Auditors", m3["Audit Lead"])
       ELSE m3

\* _get_people_ids_by_role that looks the role up without a default.
_get_people_ids_by_role_no_default(role_name, defaul_role_name, template_settings, role_name_people_id_map) ==
  IF ~PyTruthy(Get(template_settings, role_name)) THEN PyList(<<>>)
  ELSE LET template_role == template_settings[role_name] IN
       IF template_role.type = "list" THEN template_role
       ELSE LET people == GetList(role_name_people_id_map, template_role.value, PyNone)
            IN IF PyTruthy(people) THEN people ELSE PyList(<<>>)

\* _get_people_ids_by_role(role_name, defaul_role_name, template_settings,
\*                         role_name_people_id_map)
_get_people_ids_by_role(role_name, defaul_role_name, template_settings, role_name_people_id_map) ==
  IF ~PyTruthy(Get(template_settings, role_name)) THEN PyList(<<>>)
  ELSE LET template_role == template_settings[role_name] IN
       IF template_role.type = "list" THEN template_role
       ELSE LET default_people ==
                  GetList(role_name_people_id_map, defaul_role_name, PyNone)
                people ==
                  GetList(role_name_people_id_map, template_role.value, default_people)
            IN IF PyTruthy(people) THEN people ELSE PyList(<<>>)

\* The settings _relate_assignees uses when there is no template.
DefaultSettings ==
  ("assignees" :> PyStr("Principal Assignees")) @@ ("verifiers" :> PyStr("Auditors"))

\* template.default_people of a template, or the default settings.
TemplateSettings(template) ==
  IF template = NoneObj THEN DefaultSettings ELSE template.default_people

\* The values template.default_people holds for a role.
SettingValues ==
  { PyList(<<>>), PyList(<<5, 6>>), PyStr(""),
    PyStr("Principal Assignees"), PyStr("Audit Lead"), PyStr("Auditors"),
    PyStr("Secondary Assignees") }

\* The dicts template.default_people can be: each key missing or present.
DefaultPeopleDicts ==
  UNION { [keys -> SettingValues] : keys \in SUBSET {"assignees", "verifiers"} }

RelateTemplates == {NoneObj} \cup [id : {1}, default_people : DefaultPeopleDicts]

RlIdle ==
  /\ rl_pc = "idle"
  /\ rl_args = None
  /\ rl_map = EmptyDict
  /\ rl_assignee_ids = PyNone
  /\ rl_verifier_ids = PyNone

RlInit ==
  /\ rl_pc = "call"
  /\ rl_args \in [snapshot_acl : SeqsUpTo(SnapshotAclEntries, MaxSnapshotAcl),
                   audit_acl : SeqsUpTo(AuditAclEntries, MaxAuditAcl),
                   template : RelateTemplates]
  /\ rl_map = EmptyDict
  /\ rl_assignee_ids = PyNone
  /\ rl_verifier_ids = PyNone

\* _relate_assignees up to the ids it hands to _generate_assignee_relations.
CallRelateAssignees ==
  /\ rl_pc = "call"
  /\ LET template_settings == TemplateSettings(rl_args.template)
         role_people_map ==
           _generate_role_people_map(rl_args.audit_acl, rl_args.snapshot_acl)
     IN /\ rl_map' = role_people_map
        /\ rl_assignee_ids' = _get_people_ids_by_role(
             "assignees", "Audit Lead", template_settings, role_people_map)
        /\ rl_verifier_ids' = _get_people_ids_by_role(
             "verifiers", "Auditors", template_settings, role_people_map)
  /\ rl_pc' = "done"
  /\ UNCHANGED rl_args

\* The people the snapshot's revision lists under the role called `name`.
SnapshotPeople(snapshot_acl, name) ==
  GetList(SnapshotRoles(snapshot_acl, 1, EmptyDict), name, PyList(<<>>)).items

\* C8: when nobody holds the Auditors role on the audit and the snapshot
\* contributes no "Auditors" entry, the map's "Auditors" entry is the list
\* of the audit's Audit Captains; when the audit has an auditor, no captain
\* is added to "Auditors".
C8_AuditorsFallBackToCaptains ==
  rl_pc = "done" =>
    LET captains == AuditPeople(rl_args.audit_acl, RoleIdByName(audit_acr, "Audit Captains"))
        auditors == AuditPeople(rl_args.audit_acl, RoleIdByName(audit_acr, "Auditors"))
        snapshot_auditors == SnapshotPeople(rl_args.snapshot_acl, "Auditors")
    IN /\ (auditors = <<>> /\ snapshot_auditors = <<>>) =>
            rl_map["Auditors"] = captains
       /\ auditors # <<>> =>
            rl_map["Auditors"] = snapshot_auditors \o auditors

\* The entry of the settings _relate_assignees reads for `role_name`.
SettingsEntry(role_name) ==
  IF rl_args.template = NoneObj
    THEN IF role_name = "assignees" THEN PyStr("Principal Assignees") ELSE PyStr("Auditors")
    ELSE Get(rl_args.template.default_people, role_name)

\* What C9 says of the ids returned for an entry of the settings.
PeopleAsSettingsSay(entry, default_role_name, ids) ==
  /\ ids.type = "list"
  /\ ~PyTruthy(entry) => ids.items = <<>>
  /\ (entry.type = "list" /\ PyTruthy(entry)) => ids = entry
  /\ (entry.type = "str" /\ PyTruthy(entry)) =>
       IF entry.value \in DOMAIN rl_map THEN ids.items = rl_map[entry.value]
       ELSE IF default_role_name \in DOMAIN rl_map THEN ids.items = rl_map[default_role_name]
       ELSE ids.items = <<>>

\* C9: _get_people_ids_by_role returns a list, never None: empty when the
\* settings have no or an empty entry for the role, the entry itself when it
\* is a list, else the people of the named role, or of the default role
\* ("Audit Lead" for assignees, "Auditors" for verifiers) when the map has no
\* entry for the named role; with no template the entries are "Principal
\* Assignees" and "Auditors".
C9_PeopleIdsByRole ==
  rl_pc = "done" =>
    /\ PeopleAsSettingsSay(SettingsEntry("assignees"), "Audit Lead", rl_assignee_ids)
    /\ PeopleAsSettingsSay(SettingsEntry("verifiers"), "Auditors", rl_verifier_ids)

\* C9 witness: the template names a role the map has no entry for, and the
\* assignees are the audit's captain; its verifiers are its own list.
C9_Witness ==
  /\ rl_pc = "done"
  /\ rl_args.template # NoneObj
  /\ SettingsEntry("assignees") = PyStr("Secondary Assignees")
  /\ SettingsEntry("verifiers") = PyList(<<5, 6>>)
  /\ "Secondary Assignees" \notin DOMAIN rl_map
  /\ rl_assignee_ids = PyList(<<1>>)
  /\ rl_verifier_ids = PyList(<<5, 6>>)

(***************************************************************************)
(* models/hooks/assessment.py: the batch inserts.                          *)
(* An env record holds what the four functions read and write: flask.g,    *)
(* the two tables, the statements executed and the cache.                  *)
(***************************************************************************)

\* How many stubs are marked in one behaviour of SpecBatch.
MaxMarks == 3

\* login.get_current_user_id()
CurrentUserId == 1

CADS == "cads_to_batch_insert"
ACPS == "acps_to_batch_insert"

\* The custom attribute definitions of the templates, as to_dict() gives them.
CadOfTemplate(id, title, template_id) ==
  [id |-> id, title |-> title, definition_type |-> "assessment_template",
   definition_id |-> template_id]

\* The AssessmentTemplate rows of the database.
Templates ==
  (1 :> [ id |-> 1, sox_302_enabled |-> TRUE,
          custom_attribute_definitions |->
            << CadOfTemplate(51, "Evidence", 1), CadOfTemplate(52, "Comment", 1) >>,
          default_people |->
            ("assignees" :> PyStr("Principal Assignees")) @@
            ("verifiers" :> PyStr("Auditors")),
          test_plan_procedure |-> TRUE, procedure_description |-> "procedure",
          template_object_type |-> "Control" ]) @@
  (2 :> [ id |-> 2, sox_302_enabled |-> FALSE,
          custom_attribute_definitions |-> <<>>,
          default_people |->
            ("assignees" :> PyList(<<5, 6>>)) @@
            ("verifiers" :> PyStr("Secondary Assignees")),
          test_plan_procedure |-> FALSE, procedure_description |-> "",
          template_object_type |-> "" ])

AssessmentRoles == <<"Assignees", "Verifiers", "Creators">>

\* An Assessment created from the POSTed JSON, before the hook runs.
Assessment(id, sox_302_enabled, acl_roles) ==
  [ id |-> id, sox_302_enabled |-> sox_302_enabled, acl_roles |-> acl_roles,
    title |-> "", test_plan |-> None, test_plan_procedure |-> TRUE,
    assessment_type |-> "Control", mapped_to |-> <<>> ]

\* assessment.get_acl_with_role_name(role_name): the ACL, or None.
get_acl_with_role_name(assessment, role_name) ==
  IF role_name \in assessment.acl_roles
    THEN [id |-> assessment.id * 10 + IndexIn(AssessmentRoles, role_name)]
    ELSE NoneObj

\* getattr(flask.g, name, [])
Bucket(g, name) == IF name \in DOMAIN g THEN g[name] ELSE <<>>

\* if not hasattr(flask.g, name): flask.g.name = []
WithBucket(g, name) == IF name \in DOMAIN g THEN g ELSE g @@ (name :> <<>>)

EnvInit ==
  [ flask_g |-> EmptyDict, n_marks |-> 0, cad_table |-> <<>>, acp_table |-> <<>>,
    db_executed |-> <<>>, cache_new |-> {} ]

\* clone_cad_stub(cad_stub, target), the copy being the mark-th stub made.
clone_cad_stub(cad_stub, target, mark) ==
  [ cad_stub EXCEPT !.definition_type = "assessment",
                    !.definition_id = target.id,
                    !.id = NoneId ]
    @@ [modified_by_id |-> CurrentUserId, mark |-> mark]

\* _mark_cads_to_batch_insert(ca_definitions, attributable)
_mark_cads_to_batch_insert(env, ca_definitions, attributable) ==
  LET g == WithBucket(env.flask_g, CADS)
      stubs == [i \in 1..Len(ca_definitions) |->
                 clone_cad_stub(ca_definitions[i], attributable, env.n_marks + i)]
  IN [env EXCEPT !.flask_g = [g EXCEPT ![CADS] = @ \o stubs],
                 !.n_marks = @ + Len(ca_definitions)]

\* _batch_insert_cads that inserts the bucket and leaves it as it is.
_batch_insert_cads_keeping(env, attributables) ==
  LET cads_to_batch_insert == Bucket(env.flask_g, CADS) IN
  IF cads_to_batch_insert = <<>> THEN env
  ELSE [env EXCEPT
          !.cad_table = @ \o cads_to_batch_insert,
          !.db_executed = Append(@, [table |-> "custom_attribute_definitions",
                                     rows |-> cads_to_batch_insert])]

\* _batch_insert_cads(attributables)
_batch_insert_cads(env, attributables) ==
  LET cads_to_batch_insert == Bucket(env.flask_g, CADS) IN
  IF cads_to_batch_insert = <<>> THEN env
  ELSE LET table == env.cad_table \o cads_to_batch_insert
           ids == {attributables[i].id : i \in 1..Len(attributables)}
           new_cads_q == { row \in Range(table) :
                             /\ row.definition_type = "assessment"
                             /\ row.definition_id \in ids }
       IN [env EXCEPT
             !.flask_g = [@ EXCEPT ![CADS] = <<>>],
             !.cad_table = table,
             !.db_executed = Append(@, [table |-> "custom_attribute_definitions",
                                        rows |-> cads_to_batch_insert]),
             !.cache_new = @ \cup new_cads_q]

\* add_person_to_acl(person, ac_list), the stub being the mark-th one made.
add_person_to_acl(person_id, ac_list, mark) ==
  [ id |-> NoneId, person_id |-> person_id, ac_list_id |-> ac_list.id,
    modified_by_id |-> CurrentUserId, mark |-> mark ]

\* _mark_acps_to_batch_insert(assignee, role_name, assessment)
_mark_acps_to_batch_insert(env, person_id, role_name, assessment) ==
  LET g == WithBucket(env.flask_g, ACPS)
      acl == get_acl_with_role_name(assessment, role_name)
  IN IF acl = NoneObj THEN [env EXCEPT !.flask_g = g]
     ELSE [env EXCEPT
             !.flask_g = [g EXCEPT ![ACPS] =
                            Append(@, add_person_to_acl(person_id, acl, env.n_marks + 1))],
             !.n_marks = @ + 1]

\* _batch_insert_acps(assessments)
_batch_insert_acps(env, assessments) ==
  LET acps_to_batch_insert == Bucket(env.flask_g, ACPS) IN
  IF acps_to_batch_insert = <<>> THEN env
  ELSE LET table == env.acp_table \o acps_to_batch_insert
           new_acls_q ==
             { get_acl_with_role_name(assessments[i], role).id :
                 i \in 1..Len(assessments), role \in Range(AssessmentRoles) }
           new_acps_q == {row \in Range(table) : row.ac_list_id \in new_acls_q}
       IN [env EXCEPT
             !.flask_g = [@ EXCEPT ![ACPS] = <<>>],
             !.acp_table = table,
             !.db_executed = Append(@, [table |-> "access_control_people",
                                        rows |-> acps_to_batch_insert]),
             !.cache_new = @ \cup new_acps_q]

Env ==
  [ flask_g |-> flask_g, n_marks |-> n_marks, cad_table |-> cad_table,
    acp_table |-> acp_table, db_executed |-> db_executed, cache_new |-> cache_new ]

SetEnv(env) ==
  /\ flask_g' = env.flask_g
  /\ n_marks' = env.n_marks
  /\ cad_table' = env.cad_table
  /\ acp_table' = env.acp_table
  /\ db_executed' = env.db_executed
  /\ cache_new' = env.cache_new

BatchInit ==
  /\ flask_g = EnvInit.flask_g
  /\ n_marks = EnvInit.n_marks
  /\ cad_table = EnvInit.cad_table
  /\ acp_table = EnvInit.acp_table
  /\ db_executed = EnvInit.db_executed
  /\ cache_new = EnvInit.cache_new
  /\ last_call = "none"

\* The assessments the four functions are called with in SpecBatch: the
\* second has no ACL for the Verifiers role.
BatchAssessments ==
  { Assessment(101, FALSE, Range(AssessmentRoles)),
    Assessment(102, FALSE, {"Assignees", "Creators"}) }

BatchPersonIds == {1, 2}
BatchRoleNames == {"Assignees", "Verifiers"}
BatchAssessmentLists == {<<>>} \cup {<<a>> : a \in BatchAssessments}

MarkCads(ca_definitions, attributable) ==
  /\ n_marks + Len(ca_definitions) <= MaxMarks
  /\ SetEnv(_mark_cads_to_batch_insert(Env, ca_definitions, attributable))
  /\ last_call' = "_mark_cads_to_batch_insert"

MarkAcps(person_id, role_name, assessment) ==
  /\ n_marks < MaxMarks
  /\ SetEnv(_mark_acps_to_batch_insert(Env, person_id, role_name, assessment))
  /\ last_call' = "_mark_acps_to_batch_insert"

BatchInsertCads(attributables) ==
  /\ SetEnv(_batch_insert_cads(Env, attributables))
  /\ last_call' = "_batch_insert_cads"

BatchInsertAcps(assessments) ==
  /\ SetEnv(_batch_insert_acps(Env, assessments))
  /\ last_call' = "_batch_insert_acps"

\* Every stub made so far, wherever it is now.
AllStubs ==
  Bucket(flask_g, CADS) \o Bucket(flask_g, ACPS) \o cad_table \o acp_table

\* Each stub made is in exactly one place, once: waiting in its bucket or
\* inserted in its table.
StubsConserved ==
  /\ Len(AllStubs) = n_marks
  /\ \A k \in 1..n_marks :
       Cardinality({i \in 1..Len(AllStubs) : AllStubs[i].mark = k}) = 1
  /\ \A row \in Range(Bucket(flask_g, CADS) \o cad_table) : "definition_id" \in DOMAIN row
  /\ \A row \in Range(Bucket(flask_g, ACPS) \o acp_table) : "ac_list_id" \in DOMAIN row

IsPrefix(a, b) == Len(a) <= Len(b) /\ SubSeq(b, 1, Len(a)) = a

\* What a step of each of the four functions does to buckets and tables.
BatchStep ==
  /\ last_call' = "_batch_insert_cads" =>
       /\ Bucket(flask_g', CADS) = <<>>
       /\ cad_table' = cad_table \o Bucket(flask_g, CADS)
       /\ Bucket(flask_g, CADS) = <<>> => db_executed' = db_executed
       /\ Bucket(flask_g', ACPS) = Bucket(flask_g, ACPS)
       /\ acp_table' = acp_table
  /\ last_call' = "_batch_insert_acps" =>
       /\ Bucket(flask_g', ACPS) = <<>>
       /\ acp_table' = acp_table \o Bucket(flask_g, ACPS)
       /\ Bucket(flask_g, ACPS) = <<>> => db_executed' = db_executed
       /\ Bucket(flask_g', CADS) = Bucket(flask_g, CADS)
       /\ cad_table' = cad_table
  /\ last_call' \in {"_mark_cads_to_batch_insert", "_mark_acps_to_batch_insert"} =>
       /\ IsPrefix(Bucket(flask_g, CADS), Bucket(flask_g', CADS))
       /\ IsPrefix(Bucket(flask_g, ACPS), Bucket(flask_g', ACPS))
       /\ cad_table' = cad_table
       /\ acp_table' = acp_table
       /\ db_executed' = db_executed

MaxPairs == 2

\* An id that no row has.
MissingId == 9

\* The Audit rows of the database: the first has a captain and no auditor.
Audits ==
  (1 :> [ id |-> 1, title |-> "Audit 1",
          access_control_list |-> << [person_id |-> 1, ac_role_id |-> 21] >> ]) @@
  (2 :> [ id |-> 2, title |-> "Audit 2",
          access_control_list |-> << [person_id |-> 2, ac_role_id |-> 21],
                                     [person_id |-> 2, ac_role_id |-> 22] >> ])

\* The Snapshot rows of the database, each with the content of its revision.
Snapshots ==
  (1 :> [ id |-> 1, child_type |-> "Control",
          revision |-> [content |->
            [ title |-> "Control 1", test_plan |-> Attr("snapshot plan"),
              access_control_list |-> << [ac_role_id |-> 12, person_id |-> 3] >> ]] ])

\* The ids of the Person rows; a template may list an id that is not one.
Persons == 1..5

Rows(obj_type) ==
  CASE obj_type = "Audit" -> Audits
    [] obj_type = "AssessmentTemplate" -> Templates
    [] obj_type = "Snapshot" -> Snapshots

NotFound(obj_type) == [type |-> "NotFound", message |-> obj_type]
AttributeError(attribute) == [type |-> "AttributeError", message |-> attribute]

\* What a call gave: the object it returned, or the error it raised.
Returned(obj) == [error |-> NoError, obj |-> obj, lookups |-> <<>>]

\* referenced_objects.get(obj_type, id_, raise_exception=True)
referenced_objects_get(obj_type, id_) ==
  LET lookup == << [obj_type |-> obj_type, id |-> id_] >> IN
  IF id_ \in DOMAIN Rows(obj_type)
    THEN [error |-> NoError, obj |-> Rows(obj_type)[id_], lookups |-> lookup]
    ELSE [error |-> NotFound(obj_type), obj |-> NoneObj, lookups |-> lookup]

\* A key of the POSTed JSON that refers to an object: missing, or a stub
\* whose "id" is the given one (NoneId: the stub has no id).
SourceRefs(ids) == {Absent} \cup {Attr(id_) : id_ \in ids}

\* The POSTed JSON dictionaries.
PostSources ==
  [ audit : SourceRefs({1, 2, MissingId}),
    template : SourceRefs({1, 2, MissingId}),
    object : SourceRefs({NoneId, 1, MissingId}),
    _generated : {Absent, Attr(TRUE)} ]

\* (stub or {}).get("id")
StubId(ref) == IF ref = Absent THEN NoneId ELSE ref[1]

_get_audit_id(asmt_src) == StubId(asmt_src.audit)

_get_snapshot_id(asmt_src) == StubId(asmt_src.object)

_get_template_id(asmt_src) == StubId(asmt_src.template)

\* The three getters as the values handed to _get_object_from_src.
AuditIdGetter == [asmt_src \in PostSources |-> _get_audit_id(asmt_src)]
SnapshotIdGetter == [asmt_src \in PostSources |-> _get_snapshot_id(asmt_src)]
TemplateIdGetter == [asmt_src \in PostSources |-> _get_template_id(asmt_src)]

\* _get_object_from_src that keeps the current object whatever id is named.
_get_object_from_src_keeping_current(src, id_getter, obj_type, current) ==
  LET id_ == id_getter[src] IN
  IF id_ = NoneId THEN Returned(NoneObj)
  ELSE IF current = NoneObj THEN referenced_objects_get(obj_type, id_)
  ELSE Returned(current)

\* _get_object_from_src(src, id_getter, obj_type, current=None)
_get_object_from_src(src, id_getter, obj_type, current) ==
  LET id_ == id_getter[src] IN
  IF id_ = NoneId THEN Returned(NoneObj)
  ELSE IF current = NoneObj \/ current.id # id_
    THEN referenced_objects_get(obj_type, id_)
  ELSE Returned(current)

\* asmt_src.get("_generated") or False
_is_autogenerated(asmt_src) ==
  IF asmt_src._generated = Absent THEN FALSE ELSE asmt_src._generated[1]

\* assessment.map_to(obj): the call is recorded with the object it was given.
map_to(assessment, obj_type, obj) ==
  [assessment EXCEPT !.mapped_to = Append(@, [obj_type |-> obj_type, id |-> obj.id])]

\* set_title(assessment, audit, snapshot_rev_content)
set_title(assessment, audit, snapshot_rev_content) ==
  [assessment EXCEPT
     !.title = (snapshot_rev_content.title \o " assessment for ") \o audit.title]

\* set_assessment_type(assessment, template)
set_assessment_type(assessment, template) ==
  IF template # NoneObj /\ template.template_object_type # ""
    THEN [assessment EXCEPT !.assessment_type = template.template_object_type]
    ELSE assessment

\* set_sox_302_enabled that only ever switches the flag on.
set_sox_302_enabled_only_on(assessment, template) ==
  IF template # NoneObj /\ template.sox_302_enabled
    THEN [assessment EXCEPT !.sox_302_enabled = TRUE]
    ELSE assessment

\* set_sox_302_enabled(assessment, template)
set_sox_302_enabled(assessment, template) ==
  IF template # NoneObj
    THEN [assessment EXCEPT !.sox_302_enabled = template.sox_302_enabled]
    ELSE assessment

\* The elements of a set of ids in ascending order: the order in which
\* CPython iterates a set of small non-negative ints.
RECURSIVE Ascending(_)
Ascending(S) ==
  IF S = {} THEN <<>>
  ELSE LET least == CHOOSE x \in S : \A y \in S : x <= y
       IN <<least>> \o Ascending(S \ {least})

\* if person_id in ids: _mark_acps_to_batch_insert(person, role_name, assessment)
MarkIfIn(env, person_id, ids, role_name, assessment) ==
  IF person_id \in Range(ids)
    THEN _mark_acps_to_batch_insert(env, person_id, role_name, assessment)
    ELSE env

\* The loop of _generate_assignee_relations, from person i on.
RECURSIVE RelatePeople(_, _, _, _, _, _, _)
RelatePeople(env, assessment, people, i, assignee_ids, verifier_ids, creator_ids) ==
  IF i > Len(people) THEN env
  ELSE IF people[i] \notin Persons
    THEN RelatePeople(env, assessment, people, i + 1,
                      assignee_ids, verifier_ids, creator_ids)
  ELSE RelatePeople(
         MarkIfIn(
           MarkIfIn(
             MarkIfIn(env, people[i], assignee_ids, "Assignees", assessment),
             people[i], verifier_ids, "Verifiers", assessment),
           people[i], creator_ids, "Creators", assessment),
         assessment, people, i + 1, assignee_ids, verifier_ids, creator_ids)

\* _generate_assignee_relations(assessment, assignee_ids, verifier_ids,
\*                              creator_ids)
_generate_assignee_relations(env, assessment, assignee_ids, verifier_ids, creator_ids) ==
  LET people == Range(assignee_ids \o verifier_ids \o creator_ids)
  IN RelatePeople(env, assessment, Ascending(people), 1,
                  assignee_ids, verifier_ids, creator_ids)

\* _relate_assignees(assessment, snapshot, snapshot_rev_content, template,
\* audit): the env after it, or the AttributeError of reading
\* snapshot.child_type or audit.access_control_list of None.
_relate_assignees(env, assessment, snapshot, snapshot_rev_content, template, audit) ==
  IF snapshot = NoneObj
    THEN [env |-> env, error |-> AttributeError("child_type")]
  ELSE IF audit = NoneObj
    THEN [env |-> env, error |-> AttributeError("access_control_list")]
  ELSE LET template_settings == TemplateSettings(template)
           role_people_map ==
             _generate_role_people_map(audit.access_control_list,
                                       snapshot_rev_content.access_control_list)
           assignee_ids == _get_people_ids_by_role(
             "assignees", "Audit Lead", template_settings, role_people_map)
           verifier_ids == _get_people_ids_by_role(
             "verifiers", "Auditors", template_settings, role_people_map)
       IN [env |-> _generate_assignee_relations(
                     env, assessment, assignee_ids.items, verifier_ids.items,
                     <<CurrentUserId>>),
           error |-> NoError]

\* The end of _handle_assessment, after _relate_assignees gave `related`:
\* its error leaves the function, else title, test plan and type are set.
SetAutoProperties(assessment, audit, tmpl, snapshot_rev_content, related) ==
  IF related.error # NoError
    THEN [env |-> related.env, assessment |-> assessment, error |-> related.error]
    ELSE [env |-> related.env,
          assessment |->
            set_assessment_type(
              set_test_plan(set_title(assessment, audit, snapshot_rev_content),
                            tmpl, snapshot_rev_content),
              tmpl),
          error |-> NoError]

\* _handle_assessment from the template on, the assessment being mapped.
ApplyTemplate(env, assessment, audit, tmpl, snapshot, snapshot_rev_content, is_autogenerated) ==
  LET a2 == IF tmpl # NoneObj THEN set_sox_302_enabled(assessment, tmpl) ELSE assessment
      e2 == IF tmpl # NoneObj
              THEN _mark_cads_to_batch_insert(env, tmpl.custom_attribute_definitions, a2)
              ELSE env
  IN IF ~(is_autogenerated \/ snapshot # NoneObj)
       THEN [env |-> e2, assessment |-> a2, error |-> NoError]
       ELSE SetAutoProperties(
              a2, audit, tmpl, snapshot_rev_content,
              _relate_assignees(e2, a2, snapshot, snapshot_rev_content, tmpl, audit))

\* The env with the marked CADs inserted at once.
CadsInsertedNow(handled, assessment) ==
  [handled EXCEPT !.env = _batch_insert_cads(handled.env, <<assessment>>)]

\* _handle_assessment that inserts the CADs it marked for the assessment
\* itself instead of leaving them to the batch insert.
_handle_assessment_inserting_cads(env, assessment, audit, tmpl, snapshot, snapshot_rev_content, is_autogenerated) ==
  CadsInsertedNow(
    ApplyTemplate(env, map_to(map_to(assessment, "Snapshot", snapshot), "Audit", audit),
                  audit, tmpl, snapshot, snapshot_rev_content, is_autogenerated),
    assessment)

\* _handle_assessment(assessment, audit, tmpl, snapshot, snapshot_rev_content,
\* is_autogenerated): the env and the assessment after it, and its error.
_handle_assessment(env, assessment, audit, tmpl, snapshot, snapshot_rev_content, is_autogenerated) ==
  ApplyTemplate(env, map_to(map_to(assessment, "Snapshot", snapshot), "Audit", audit),
                audit, tmpl, snapshot, snapshot_rev_content, is_autogenerated)

Event(name, index) == [event |-> name, index |-> index]

\* snapshot.revision.content if the snapshot is not None
RevContent(snapshot) ==
  IF snapshot # NoneObj THEN snapshot.revision.content ELSE NoneObj

\* The insert statements db.session.execute ran while env became after, as
\* events of the handler's trace.
Executed(env, after) ==
  [k \in 1..(Len(after.db_executed) - Len(env.db_executed)) |->
     Event("INSERT INTO " \o after.db_executed[Len(env.db_executed) + k].table, 0)]

\* The handler's state after a lookup raised.
LookupRaised(st, error, lookups) ==
  [st EXCEPT !.error = error, !.lookups = @ \o lookups]

\* The handler's state after _handle_assessment(call...) gave `handled` for
\* pair i.
Handled(st, i, call, lookups, handled) ==
  [st EXCEPT
     !.audit = call.audit,
     !.template = call.tmpl,
     !.lookups = @ \o lookups,
     !.calls = Append(@, call),
     !.trace = Append(@, Event("_handle_assessment", i)) \o Executed(st.env, handled.env),
     !.env = handled.env,
     !.objects = [@ EXCEPT ![i] = handled.assessment],
     !.error = handled.error]

\* The call of _handle_assessment for pair i.
HandlePair(st, i, call, lookups) ==
  Handled(st, i, call, lookups,
          _handle_assessment(st.env, st.objects[i], call.audit, call.tmpl,
                             call.snapshot, call.snapshot_rev_content,
                             call.is_autogenerated))

\* The body of the first loop of handle_assessment_post for pair i: the
\* three lookups, then _handle_assessment.
LoopBody(st, src, i, audit_r, template_r, snapshot_r) ==
  IF audit_r.error # NoError
    THEN LookupRaised(st, audit_r.error, audit_r.lookups)
  ELSE IF template_r.error # NoError
    THEN LookupRaised(st, template_r.error, audit_r.lookups \o template_r.lookups)
  ELSE IF snapshot_r.error # NoError
    THEN LookupRaised(st, snapshot_r.error,
                      audit_r.lookups \o template_r.lookups \o snapshot_r.lookups)
  ELSE HandlePair(st, i,
                  [ assessment_id |-> st.objects[i].id,
                    audit |-> audit_r.obj, tmpl |-> template_r.obj,
                    snapshot |-> snapshot_r.obj,
                    snapshot_rev_content |-> RevContent(snapshot_r.obj),
                    is_autogenerated |-> _is_autogenerated(src) ],
                  audit_r.lookups \o template_r.lookups \o snapshot_r.lookups)

\* The first loop of handle_assessment_post, from pair i on, until an error
\* leaves it.  st carries the handler's locals (audit, template), the
\* objects, and what was done.
RECURSIVE HandlePairs(_, _, _)
HandlePairs(st, sources, i) ==
  IF st.error # NoError \/ i > Len(st.objects) \/ i > Len(sources) THEN st
  ELSE HandlePairs(
         LoopBody(st, sources[i], i,
                  _get_object_from_src(sources[i], AuditIdGetter, "Audit", st.audit),
                  _get_object_from_src(sources[i], TemplateIdGetter,
                                       "AssessmentTemplate", st.template),
                  _get_object_from_src(sources[i], SnapshotIdGetter, "Snapshot", NoneObj)),
         sources, i + 1)

\* The issue tracker loop of handle_assessment_post: one event per pair.
TrackerEvents(objects, sources) ==
  LET n == IF Len(objects) <= Len(sources) THEN Len(objects) ELSE Len(sources)
  IN [i \in 1..n |-> Event("handle_assessment_create", i)]

\* The handler's state after a batch insert function, called `name`, left
\* env.
Inserted(st, name, env) ==
  [st EXCEPT !.env = env,
             !.trace = Append(@, Event(name, 0)) \o Executed(st.env, env)]

\* _batch_insert_cads(attributables=objects)
InsertCads(st) ==
  Inserted(st, "_batch_insert_cads", _batch_insert_cads(st.env, st.objects))

\* _batch_insert_acps(assessments=objects)
InsertAcps(st) ==
  Inserted(st, "_batch_insert_acps", _batch_insert_acps(st.env, st.objects))

\* The flush and the issue tracker loop that end handle_assessment_post.
FlushAndTrack(st, sources) ==
  [st EXCEPT !.trace = Append(@, Event("flush", 0))
                       \o TrackerEvents(st.objects, sources)]

\* handle_assessment_post after its first loop: the error leaves it, or the
\* two batch inserts, the flush and the issue tracker loop run.
AfterPairs(st, sources) ==
  IF st.error # NoError THEN st
  ELSE FlushAndTrack(InsertAcps(InsertCads(st)), sources)

\* handle_assessment_post(sender, objects, sources, service) in a request
\* whose flask.g is new: the handler's state when it returns or raises.
handle_assessment_post(objects, sources) ==
  AfterPairs(
    HandlePairs([ objects |-> objects, audit |-> NoneObj, template |-> NoneObj,
                  env |-> EnvInit, calls |-> <<>>, lookups |-> <<>>,
                  trace |-> <<Event("flush", 0)>>, error |-> NoError ],
                sources, 1),
    sources)

\* The lists a POST hands to the hook: as many sources as assessments, the
\* i-th assessment being the one created from the i-th source; sox is the
\* sox_302_enabled the assessments are created with.
PostArgs(sox, sources) ==
  [ objects |-> [i \in 1..Len(sources) |->
                   Assessment(100 + i, sox, Range(AssessmentRoles))],
    sources |-> sources ]

PostIdle ==
  /\ post_pc = "idle"
  /\ post_args = None
  /\ post_objects = <<>>
  /\ post_calls = <<>>
  /\ post_lookups = <<>>
  /\ post_trace = <<>>
  /\ post_error = NoError
  /\ post_env = EnvInit

PostInit ==
  /\ post_pc = "call"
  /\ \E n \in 1..MaxPairs :
       \E sox \in BOOLEAN, sources \in [1..n -> PostSources] :
         post_args = PostArgs(sox, sources)
  /\ post_objects = post_args.objects
  /\ post_calls = <<>>
  /\ post_lookups = <<>>
  /\ post_trace = <<>>
  /\ post_error = NoError
  /\ post_env = EnvInit

\* The state the handler leaves.
SetPost(st) ==
  /\ post_objects' = st.objects
  /\ post_calls' = st.calls
  /\ post_lookups' = st.lookups
  /\ post_trace' = st.trace
  /\ post_error' = st.error
  /\ post_env' = st.env
  /\ post_pc' = IF st.error = NoError THEN "returned" ELSE "raised"

\* The collection_posted signal reaches the hook.
CallHandleAssessmentPost ==
  /\ post_pc = "call"
  /\ SetPost(handle_assessment_post(post_args.objects, post_args.sources))
  /\ UNCHANGED post_args

PostDone == post_pc \in {"returned", "raised"}

\* The id a source names under a key: NoneId when it names none.
NamedId(ref) == IF ref = Absent THEN NoneId ELSE ref[1]

\* C2: every assessment whose source names a template and that was handed to
\* _handle_assessment has the template's sox_302_enabled, with or without a
\* snapshot and a _generated mark; every other assessment keeps the value it
\* had; when the handler returns, every assessment was handed over.
C2_SoxEnabledFromTemplate ==
  PostDone =>
    /\ post_pc = "returned" => Len(post_calls) = Len(post_args.objects)
    /\ \A k \in 1..Len(post_args.objects) :
         LET template_id == NamedId(post_args.sources[k].template) IN
         IF k <= Len(post_calls) /\ template_id # NoneId
           THEN /\ template_id \in DOMAIN Templates
                /\ post_objects[k].sox_302_enabled = Templates[template_id].sox_302_enabled
           ELSE post_objects[k].sox_302_enabled = post_args.objects[k].sox_302_enabled

\* C2 witness: the handler returned; the first assessment, created with true
\* and generated from a snapshot, got false from its template; the second,
\* with no template, kept true.
C2_Witness ==
  /\ post_pc = "returned"
  /\ Len(post_args.objects) = 2
  /\ post_args.objects[1].sox_302_enabled
  /\ post_args.sources[1].template = Attr(2)
  /\ post_args.sources[1].object = Attr(1)
  /\ post_args.sources[1]._generated = Attr(TRUE)
  /\ ~post_objects[1].sox_302_enabled
  /\ post_args.sources[2].template = Absent
  /\ post_objects[2].sox_302_enabled

\* The object handed over for a named id: None for no id, else the row of
\* the table that has that id.
HandedAsNamed(obj, obj_type, id_) ==
  IF id_ = NoneId THEN obj = NoneObj
  ELSE /\ id_ \in DOMAIN Rows(obj_type)
       /\ obj = Rows(obj_type)[id_]
       /\ obj.id = id_

\* The source names, under some key, an id that no row of the table has.
NamesMissingRow(src) ==
  \/ NamedId(src.audit) \notin DOMAIN Audits \cup {NoneId}
  \/ NamedId(src.template) \notin DOMAIN Templates \cup {NoneId}
  \/ NamedId(src.object) \notin DOMAIN Snapshots \cup {NoneId}

\* C6: each _handle_assessment call got, for audit, template and snapshot,
\* None when the source names no id and else the existing row with the named
\* id; a pair whose source names an id without a row is never handed to
\* _handle_assessment: the handler raises, and it is the lookup's NotFound
\* that leaves the handler when every earlier pair was handled.
C6_HandedObjectsAreTheNamedRows ==
  PostDone =>
    /\ \A k \in 1..Len(post_calls) :
         LET call == post_calls[k]
             src == post_args.sources[k]
         IN /\ call.assessment_id = post_args.objects[k].id
            /\ HandedAsNamed(call.audit, "Audit", NamedId(src.audit))
            /\ HandedAsNamed(call.tmpl, "AssessmentTemplate", NamedId(src.template))
            /\ HandedAsNamed(call.snapshot, "Snapshot", NamedId(src.object))
    /\ \A k \in 1..Len(post_args.sources) :
         NamesMissingRow(post_args.sources[k]) =>
           /\ post_pc = "raised"
           /\ Len(post_calls) < k
           /\ (Len(post_calls) = k - 1 /\ post_error.type # "AttributeError") =>
                post_error.type = "NotFound"
    /\ post_error.type = "NotFound" =>
         /\ Len(post_calls) < Len(post_args.sources)
         /\ NamesMissingRow(post_args.sources[Len(post_calls) + 1])

\* C6 witness: two pairs name the same audit and template; the audit and the
\* template were looked up once and both calls got the rows named.
C6_Witness ==
  /\ post_pc = "returned"
  /\ Len(post_calls) = 2
  /\ post_args.sources[1].audit = Attr(1) /\ post_args.sources[2].audit = Attr(1)
  /\ post_args.sources[1].template = Attr(2) /\ post_args.sources[2].template = Attr(2)
  /\ post_args.sources[2].object = Attr(1)
  /\ post_calls[2].audit = Audits[1]
  /\ post_calls[2].tmpl = Templates[2]
  /\ post_calls[2].snapshot = Snapshots[1]
  /\ post_lookups = << [obj_type |-> "Audit", id |-> 1],
                       [obj_type |-> "AssessmentTemplate", id |-> 2],
                       [obj_type |-> "Snapshot", id |-> 1] >>

\* A lookup that raised: the second pair names a template no row has, after
\* a first pair that was handled.
C6_MissingRowRaises ==
  /\ post_pc = "raised"
  /\ post_error = NotFound("AssessmentTemplate")
  /\ Len(post_args.sources) = 2
  /\ Len(post_calls) = 1

\* The positions of the handler's trace that hold an event of that name.
TracePositions(name) ==
  {k \in 1..Len(post_trace) : post_trace[k].event = name}

CadInserts == TracePositions("INSERT INTO custom_attribute_definitions")
AcpInserts == TracePositions("INSERT INTO access_control_people")

\* The pairs _handle_assessment has run for before position k of the trace.
HandledBefore(k) ==
  {post_trace[j].index : j \in {h \in TracePositions("_handle_assessment") : h < k}}

\* C12: one handle_assessment_post executes at most one insert into
\* custom_attribute_definitions and at most one into access_control_people,
\* and no other statement; each runs after _handle_assessment has run for
\* every pair and before the first issue tracker call, the CAD insert before
\* the ACP insert.
C12_OneInsertEachAfterAllPairs ==
  PostDone =>
    /\ Cardinality(CadInserts) <= 1
    /\ Cardinality(AcpInserts) <= 1
    /\ Len(post_env.db_executed) = Cardinality(CadInserts \cup AcpInserts)
    /\ \A e \in CadInserts \cup AcpInserts :
         /\ HandledBefore(e) = 1..Len(post_args.sources)
         /\ \A t \in TracePositions("handle_assessment_create") : e < t
    /\ \A c \in CadInserts, a \in AcpInserts : c < a

\* C12 witness: two assessments, each from the template with two CADs and
\* from a snapshot: one statement inserted the four CADs, a later one the
\* ACPs, and the issue tracker calls followed.
C12_Witness ==
  /\ post_pc = "returned"
  /\ Len(post_args.sources) = 2
  /\ \A k \in 1..2 : /\ post_args.sources[k].template = Attr(1)
                      /\ post_args.sources[k].object = Attr(1)
  /\ Len(post_env.db_executed) = 2
  /\ Len(post_env.cad_table) = 4
  /\ Len(post_env.acp_table) > 2
  /\ Cardinality(CadInserts) = 1
  /\ Cardinality(AcpInserts) = 1
  /\ Cardinality(TracePositions("handle_assessment_create")) = 2

(***************************************************************************)
(* The specifications: one per part; the other parts stay as they start.    *)
(***************************************************************************)

InitMigration ==
  /\ MigInit
  /\ PutInit
  /\ CoIdle
  /\ TpIdle
  /\ RlIdle
  /\ BatchInit
  /\ PostIdle
NextMigration ==
  \/ \E name \in scope_tables_names :
       /\ upgrade(name)
       /\ UNCHANGED <<putVars, coVars, tpVars, rlVars, batchVars, postVars>>
  \/ downgrade /\ UNCHANGED <<putVars, coVars, tpVars, rlVars, batchVars, postVars>>
SpecMigration == InitMigration /\ [][NextMigration]_vars

InitPut ==
  /\ PutInit
  /\ MigInit
  /\ CoIdle
  /\ TpIdle
  /\ RlIdle
  /\ BatchInit
  /\ PostIdle
NextPut ==
  \/ \E old \in VALID_STATES, obj \in PutObjects :
       /\ handle_assessment_done_state([initial_state |-> [status |-> old], obj |-> obj])
       /\ UNCHANGED <<migVars, coVars, tpVars, rlVars, batchVars, postVars>>
  \/ PutRequestEnd /\ UNCHANGED <<migVars, coVars, tpVars, rlVars, batchVars, postVars>>
SpecPut == InitPut /\ [][NextPut]_vars

InitColumnOrder ==
  /\ CoInit
  /\ MigInit
  /\ PutInit
  /\ TpIdle
  /\ RlIdle
  /\ BatchInit
  /\ PostIdle
NextColumnOrder ==
  \/ CallGetColumnOrder /\ UNCHANGED <<migVars, putVars, tpVars, rlVars, batchVars, postVars>>
SpecColumnOrder == InitColumnOrder /\ [][NextColumnOrder]_vars

InitTestPlan ==
  /\ TpInit
  /\ MigInit
  /\ PutInit
  /\ CoIdle
  /\ RlIdle
  /\ BatchInit
  /\ PostIdle
NextTestPlan ==
  \/ CallSetTestPlan /\ UNCHANGED <<migVars, putVars, coVars, rlVars, batchVars, postVars>>
SpecTestPlan == InitTestPlan /\ [][NextTestPlan]_vars

InitRoles ==
  /\ RlInit
  /\ MigInit
  /\ PutInit
  /\ CoIdle
  /\ TpIdle
  /\ BatchInit
  /\ PostIdle
NextRoles ==
  \/ CallRelateAssignees /\ UNCHANGED <<migVars, putVars, coVars, tpVars, batchVars, postVars>>
SpecRoles == InitRoles /\ [][NextRoles]_vars

InitBatch ==
  /\ BatchInit
  /\ MigInit
  /\ PutInit
  /\ CoIdle
  /\ TpIdle
  /\ RlIdle
  /\ PostIdle
NextBatch ==
  \/ \E t \in DOMAIN Templates, a \in BatchAssessments :
       /\ MarkCads(Templates[t].custom_attribute_definitions, a)
       /\ UNCHANGED <<migVars, putVars, coVars, tpVars, rlVars, postVars>>
  \/ \E person_id \in BatchPersonIds, role_name \in BatchRoleNames, a \in BatchAssessments :
       /\ MarkAcps(person_id, role_name, a)
       /\ UNCHANGED <<migVars, putVars, coVars, tpVars, rlVars, postVars>>
  \/ \E attributables \in BatchAssessmentLists :
       /\ BatchInsertCads(attributables)
       /\ UNCHANGED <<migVars, putVars, coVars, tpVars, rlVars, postVars>>
  \/ \E assessments \in BatchAssessmentLists :
       /\ BatchInsertAcps(assessments)
       /\ UNCHANGED <<migVars, putVars, coVars, tpVars, rlVars, postVars>>
SpecBatch == InitBatch /\ [][NextBatch]_vars

InitPost ==
  /\ PostInit
  /\ MigInit
  /\ PutInit
  /\ CoIdle
  /\ TpIdle
  /\ RlIdle
  /\ BatchInit
NextPost ==
  \/ CallHandleAssessmentPost /\ UNCHANGED <<migVars, putVars, coVars, tpVars, rlVars, batchVars>>
SpecPost == InitPost /\ [][NextPost]_vars

====
